---- MODULE Spec2Model ----
(***************************************************************************)
(* Model of server/usercache.go: the LDAP and keys-file user caches, their *)
(* Update operations and the refresh-on-miss Authenticate protocol.        *)
(***************************************************************************)
EXTENDS Integers, Sequences, FiniteSets, TLC

VARIABLES
    variant,            \* "ldap" (ldapUserCache) or "keysfile" (keysFileUserCache)
    enableServerRoles,  \* the cache's enableServerRoles field
    phase,              \* "new": struct built, initial Update not yet run; "ready"; "crashed"
    users,              \* the cache's users map: username -> User
    groups,             \* ldapUserCache.groups: group DN -> list of role ARNs
    dir,                \* what the directory (LDAP server / keys file) holds now
    ret,                \* what the last call returned, and what it did on the way
    pc,                 \* per goroutine: where its Authenticate call stands
    local,              \* per goroutine: the call's arguments and local variables
    resyncs,            \* Update executions that have reached the directory
    mapObj,             \* which map object the users field points to
    held                \* the map a caller of Users() holds, as it was when taken

concVars == <<pc, local, resyncs, mapObj, held>>

vars == <<variant, enableServerRoles, phase, users, groups, dir, ret, concVars>>

(***************************************************************************)
(* Bounds.                                                                 *)
(***************************************************************************)
MaxEntries == 2     \* most user entries the LDAP directory holds at once
MaxRecords == 3     \* most key records the keys file holds at once
MaxResyncs == 1     \* no new concurrent call starts after this many resyncs

(***************************************************************************)
(* Values.                                                                 *)
(***************************************************************************)
NoKey == "nokey"            \* a parse that returned an error
NoErr == "nil"              \* the nil error
ErrGroupSearch == "group search failed"
ErrUserSearch == "user search failed"
ErrLoad == "load failed"
ErrKeys == "keys failed"
ErrPanic == "panic"         \* not a returned error: the goroutine panicked
Missing == "<missing>"      \* an attribute the record does not carry
ConfigDefaultRole == "dflt" \* the cache-wide defaultRole field

Range(s) == {s[i] : i \in 1..Len(s)}

Put(f, k, v) == [x \in DOMAIN f \cup {k} |-> IF x = k THEN v ELSE f[x]]

EmptyMap == [x \in {} |-> {}]

RECURSIVE Perms(_)
Perms(S) ==
    IF S = {} THEN {<<>>}
    ELSE UNION {{<<x>> \o p : p \in Perms(S \ {x})} : x \in S}

\* the nil *User
NilUser == [Username |-> "<nil>", SSHKeys |-> <<>>, ARNs |-> <<>>, DefaultRole |-> ""]

(***************************************************************************)
(* Key material.  A key string is either the base64 of a key's wire form,  *)
(* an authorized_keys line holding the key, or neither.                    *)
(***************************************************************************)
B64(k) == [form |-> "b64", key |-> k]
Line(k) == [form |-> "line", key |-> k]
Bad(k) == [form |-> "bad", key |-> k]

\* base64.StdEncoding.DecodeString followed by ssh.ParsePublicKey
ParsePublicKey(s) == IF s.form = "b64" THEN s.key ELSE NoKey

\* ssh.ParseAuthorizedKey
ParseAuthorizedKey(s) == IF s.form = "line" THEN s.key ELSE NoKey

\* the base64-then-authorized-keys-line fallback of both Update loops
ParseKey(s) ==
    LET k == ParsePublicKey(s)
    IN  IF k # NoKey THEN k ELSE ParseAuthorizedKey(s)

\* ssh.PublicKey.Verify: a signature is made by one key over one message
KeyVerify(key, challenge, sig) == sig.key = key /\ sig.msg = challenge

Challenges == {"c1"}
\* two signatures over the challenge and one over another message
Sigs == {[key |-> "K1", msg |-> "c1"], [key |-> "K2", msg |-> "c1"],
         [key |-> "K1", msg |-> "c2"]}
CallerNames == {"alice", "mallory"}

(***************************************************************************)
(* Directory contents.                                                     *)
(***************************************************************************)
GroupPool ==
    { [dn |-> "g1", arns |-> <<"A", "B">>],
      [dn |-> "g2", arns |-> <<"B", "C">>] }

\* the group search returns no group, or both
GroupDirs == { {}, GroupPool }

LdapEntryPool ==
    { [dn |-> "uid=alice", username |-> "alice", keys |-> <<B64("K1")>>,
       memberOf |-> <<"g1">>, defaultRole |-> ""],
      [dn |-> "uid=alice", username |-> "alice",
       keys |-> <<B64("K1"), Bad("x"), Line("K2")>>,
       memberOf |-> <<"g1", "g2", "g3">>, defaultRole |-> "r1"],
      [dn |-> "uid=bob", username |-> "bob", keys |-> <<Line("K1")>>,
       memberOf |-> <<"g2">>, defaultRole |-> ""],
      [dn |-> "uid=al", username |-> "alice", keys |-> <<B64("K2")>>,
       memberOf |-> <<>>, defaultRole |-> "r2"],
      [dn |-> "cn=anon", username |-> "", keys |-> <<B64("K2")>>,
       memberOf |-> <<>>, defaultRole |-> ""] }

KeysRecordPool ==
    { [key |-> B64("K1"), username |-> "alice", defaultRole |-> Missing,
       roles |-> <<"A", "B">>],
      [key |-> Line("K2"), username |-> "alice", defaultRole |-> "r1",
       roles |-> <<"B", "C">>],
      [key |-> Bad("x"), username |-> "alice", defaultRole |-> "r2",
       roles |-> <<"C">>],
      [key |-> Line("K1"), username |-> "bob", defaultRole |-> "",
       roles |-> <<"A", "A">>],
      [key |-> Bad("y"), username |-> "bob", defaultRole |-> "r1",
       roles |-> <<"B">>],
      [key |-> B64("K3"), username |-> Missing, defaultRole |-> "r1",
       roles |-> <<"A">>] }

\* distinguished names are unique in a directory
LdapEntrySets ==
    {S \in SUBSET LdapEntryPool :
        /\ Cardinality(S) <= MaxEntries
        /\ \A a, b \in S : a.dn = b.dn => a = b}

\* key strings are the keys of the KeysMap, so unique
KeysRecordSets ==
    {S \in SUBSET KeysRecordPool :
        /\ Cardinality(S) <= MaxRecords
        /\ \A a, b \in S : a.key = b.key => a = b}

Dirs(v) ==
    IF v = "ldap"
    THEN [groups : GroupDirs, recs : LdapEntrySets]
    ELSE [groups : {{}}, recs : KeysRecordSets]

(***************************************************************************)
(* ldapUserCache.Update                                                    *)
(***************************************************************************)
\* luc.groups[dn] = arns for every entry of the group search result
LdapMergeGroups(gs, gdir) ==
    [g \in DOMAIN gs \cup {e.dn : e \in gdir} |->
        IF \E e \in gdir : e.dn = g
        THEN (CHOOSE e \in gdir : e.dn = g).arns
        ELSE gs[g]]

\* the keys of one entry or record that parse, in order
RECURSIVE ParseKeys(_)
ParseKeys(strs) ==
    IF strs = <<>> THEN <<>>
    ELSE LET k == ParseKey(Head(strs))
         IN  IF k = NoKey THEN ParseKeys(Tail(strs))
             ELSE <<k>> \o ParseKeys(Tail(strs))

\* arns = append(arns, luc.groups[groupDN]...) over the memberOf values
RECURSIVE LdapArns(_, _)
LdapArns(gs, memberOf) ==
    IF memberOf = <<>> THEN <<>>
    ELSE (IF Head(memberOf) \in DOMAIN gs THEN gs[Head(memberOf)] ELSE <<>>)
         \o LdapArns(gs, Tail(memberOf))

\* the keys of an entry up to the first one that does not parse
RECURSIVE ParseKeysUntilBad(_)
ParseKeysUntilBad(strs) ==
    IF strs = <<>> THEN <<>>
    ELSE LET k == ParseKey(Head(strs))
         IN  IF k = NoKey THEN <<>>
             ELSE <<k>> \o ParseKeysUntilBad(Tail(strs))

\* LdapUser with break in place of continue on a key that does not parse
LdapUserBreakOnBadKey(e, gs, roles) ==
    [Username |-> e.username,
     SSHKeys |-> ParseKeysUntilBad(e.keys),
     ARNs |-> IF roles THEN LdapArns(gs, e.memberOf) ELSE <<>>,
     DefaultRole |-> IF roles /\ e.defaultRole # "" THEN e.defaultRole
                     ELSE ConfigDefaultRole]

\* LdapUser resolving roles whatever enableServerRoles says
LdapUserAlwaysRoles(e, gs, roles) ==
    [Username |-> e.username,
     SSHKeys |-> ParseKeys(e.keys),
     ARNs |-> LdapArns(gs, e.memberOf),
     DefaultRole |-> IF e.defaultRole # "" THEN e.defaultRole
                     ELSE ConfigDefaultRole]

\* the User built from one search result entry
LdapUser(e, gs, roles) ==
    [Username |-> e.username,
     SSHKeys |-> ParseKeys(e.keys),
     ARNs |-> IF roles THEN LdapArns(gs, e.memberOf) ELSE <<>>,
     DefaultRole |-> IF roles /\ e.defaultRole # "" THEN e.defaultRole
                     ELSE ConfigDefaultRole]

\* the loop over searchResult.Entries: luc.users[username] = &User{...}
RECURSIVE LdapScan(_, _, _, _)
LdapScan(us, gs, ord, roles) ==
    IF ord = <<>> THEN us
    ELSE LdapScan(Put(us, Head(ord).username, LdapUser(Head(ord), gs, roles)),
                  gs, Tail(ord), roles)

\* LdapUpdate with the users map emptied before the searches
LdapUpdateClearFirst(us, gs, d, ord, fail, roles) ==
    IF roles /\ fail = "group"
    THEN [users |-> EmptyMap, groups |-> gs, err |-> ErrGroupSearch,
          searches |-> 1]
    ELSE LET gs2 == IF roles THEN LdapMergeGroups(gs, d.groups) ELSE gs
             n == IF roles THEN 2 ELSE 1
         IN  IF fail = "user"
             THEN [users |-> EmptyMap, groups |-> gs2, err |-> ErrUserSearch,
                   searches |-> n]
             ELSE [users |-> LdapScan(EmptyMap, gs2, ord, roles),
                   groups |-> gs2, err |-> NoErr, searches |-> n]

\* fail names the search the server fails (a group search that is not made
\* cannot fail), ord the order of the entries in the search result
LdapUpdate(us, gs, d, ord, fail, roles) ==
    IF roles /\ fail = "group"
    THEN [users |-> us, groups |-> gs, err |-> ErrGroupSearch, searches |-> 1]
    ELSE LET gs2 == IF roles THEN LdapMergeGroups(gs, d.groups) ELSE gs
             n == IF roles THEN 2 ELSE 1
         IN  IF fail = "user"
             THEN [users |-> us, groups |-> gs2, err |-> ErrUserSearch,
                   searches |-> n]
             ELSE [users |-> LdapScan(us, gs2, ord, roles), groups |-> gs2,
                   err |-> NoErr, searches |-> n]

(***************************************************************************)
(* keysFileUserCache.Update                                                *)
(***************************************************************************)
\* KeysAddRoles without the seenRoles test
KeysAddRolesNoDedup(arns, seen, username, roles) ==
    [arns |-> arns \o roles,
     seen |-> seen \cup {<<username, r>> : r \in Range(roles)}]

\* the seenRoles loop over one record's roles
RECURSIVE KeysAddRoles(_, _, _, _)
KeysAddRoles(arns, seen, username, roles) ==
    IF roles = <<>> THEN [arns |-> arns, seen |-> seen]
    ELSE IF <<username, Head(roles)>> \in seen
         THEN KeysAddRoles(arns, seen, username, Tail(roles))
         ELSE KeysAddRoles(Append(arns, Head(roles)),
                           seen \cup {<<username, Head(roles)>>},
                           username, Tail(roles))

\* the loop over keys; st = [users, seen, panicked]
RECURSIVE KeysScan(_, _, _)
KeysScan(st, ord, roles) ==
    IF ord = <<>> \/ st.panicked THEN st
    ELSE LET r == Head(ord)
             defaultRole == IF r.defaultRole \in {Missing, ""}
                            THEN ConfigDefaultRole ELSE r.defaultRole
             user == IF r.username \in DOMAIN st.users THEN st.users[r.username]
                     ELSE [Username |-> r.username, SSHKeys |-> <<>>,
                           ARNs |-> <<>>, DefaultRole |-> defaultRole]
             k == ParseKey(r.key)
             added == IF roles
                      THEN KeysAddRoles(user.ARNs, st.seen, r.username, r.roles)
                      ELSE [arns |-> user.ARNs, seen |-> st.seen]
         IN  IF r.username = Missing
             THEN [st EXCEPT !.panicked = TRUE]
             ELSE IF k = NoKey
             THEN KeysScan(st, Tail(ord), roles)
             ELSE KeysScan([users |-> Put(st.users, r.username,
                                [user EXCEPT !.SSHKeys = Append(@, k),
                                             !.ARNs = added.arns]),
                            seen |-> added.seen,
                            panicked |-> FALSE],
                           Tail(ord), roles)

KeysUpdate(us, gs, d, ord, fail, roles) ==
    IF fail = "load"
    THEN [users |-> us, groups |-> gs, err |-> ErrLoad, searches |-> 1]
    ELSE IF fail = "keys"
    THEN [users |-> us, groups |-> gs, err |-> ErrKeys, searches |-> 2]
    ELSE LET st == KeysScan([users |-> EmptyMap, seen |-> {}, panicked |-> FALSE],
                            ord, roles)
         IN  IF st.panicked
             THEN [users |-> us, groups |-> gs, err |-> ErrPanic, searches |-> 2]
             ELSE [users |-> st.users, groups |-> gs, err |-> NoErr,
                   searches |-> 2]

(***************************************************************************)
(* Update of either cache: every result the directory and the iteration    *)
(* order allow.                                                            *)
(***************************************************************************)
FailModes(v) == IF v = "ldap" THEN {"none", "group", "user"}
                ELSE {"none", "load", "keys"}

UpdateWith(v, us, gs, d, ord, fail, roles) ==
    IF v = "ldap" THEN LdapUpdate(us, gs, d, ord, fail, roles)
    ELSE KeysUpdate(us, gs, d, ord, fail, roles)

UpdateOutcomes(v, us, gs, d, roles) ==
    {UpdateWith(v, us, gs, d, ord, fail, roles) :
        ord \in Perms(d.recs), fail \in FailModes(v)}

(***************************************************************************)
(* _verify / verify and Authenticate                                       *)
(***************************************************************************)
\* Verify returning whichever user the loop variable names at the end
VerifyAnyUser(us, username, challenge, sig) ==
    IF \E u \in DOMAIN us : \E i \in 1..Len(us[u].SSHKeys) :
            KeyVerify(us[u].SSHKeys[i], challenge, sig)
    THEN {us[u] : u \in DOMAIN us}
    ELSE {NilUser}

\* Verify trying the keys of the named user alone
VerifyNamedOnly(us, username, challenge, sig) ==
    IF /\ username \in DOMAIN us
       /\ \E i \in 1..Len(us[username].SSHKeys) :
            KeyVerify(us[username].SSHKeys[i], challenge, sig)
    THEN {us[username]}
    ELSE {NilUser}

\* the users a scan of the map can return: Go ranges over a map in no fixed
\* order, the first verifying key ends the scan
Verify(us, username, challenge, sig) ==
    LET hits == {us[u] : u \in {x \in DOMAIN us :
                    \E i \in 1..Len(us[x].SSHKeys) :
                        KeyVerify(us[x].SSHKeys[i], challenge, sig)}}
    IN  IF hits = {} THEN {NilUser} ELSE hits

\* Authenticate giving up on a miss, without an Update
AuthOutcomesNoRefresh(v, us, gs, d, roles, username, challenge, sig) ==
    {[user |-> r, err |-> NoErr, users |-> us, groups |-> gs, scans |-> 1,
      updates |-> 0, miss |-> IF r = NilUser THEN 1 ELSE 0, searches |-> 0] :
        r \in Verify(us, username, challenge, sig)}

\* Authenticate scanning again whatever Update returned
AuthOutcomesRescanOnError(v, us, gs, d, roles, username, challenge, sig) ==
    LET first == Verify(us, username, challenge, sig)
    IN  IF first # {NilUser}
        THEN {[user |-> r, err |-> NoErr, users |-> us, groups |-> gs,
               scans |-> 1, updates |-> 0, miss |-> 0, searches |-> 0] :
                  r \in first}
        ELSE UNION {
               {[user |-> r, err |-> NoErr, users |-> o.users,
                 groups |-> o.groups, scans |-> 2, updates |-> 1,
                 miss |-> 1, searches |-> o.searches] :
                    r \in Verify(o.users, username, challenge, sig)}
               : o \in UpdateOutcomes(v, us, gs, d, roles)}

\* Authenticate running Update before it looks at the cache
AuthOutcomesAlwaysRefresh(v, us, gs, d, roles, username, challenge, sig) ==
    UNION {
       IF o.err # NoErr
       THEN {[user |-> NilUser, err |-> o.err, users |-> o.users,
              groups |-> o.groups, scans |-> 0, updates |-> 1,
              miss |-> 0, searches |-> o.searches]}
       ELSE {[user |-> r, err |-> NoErr, users |-> o.users,
              groups |-> o.groups, scans |-> 1, updates |-> 1,
              miss |-> 0, searches |-> o.searches] :
                 r \in Verify(o.users, username, challenge, sig)}
       : o \in UpdateOutcomes(v, us, gs, d, roles)}

\* Authenticate scanning, after Update, the map it read before Update
AuthOutcomesStaleRescan(v, us, gs, d, roles, username, challenge, sig) ==
    LET first == Verify(us, username, challenge, sig)
    IN  IF first # {NilUser}
        THEN {[user |-> r, err |-> NoErr, users |-> us, groups |-> gs,
               scans |-> 1, updates |-> 0, miss |-> 0, searches |-> 0] :
                  r \in first}
        ELSE UNION {
               IF o.err # NoErr
               THEN {[user |-> NilUser, err |-> o.err, users |-> o.users,
                      groups |-> o.groups, scans |-> 1, updates |-> 1,
                      miss |-> 1, searches |-> o.searches]}
               ELSE {[user |-> r, err |-> NoErr, users |-> o.users,
                      groups |-> o.groups, scans |-> 2, updates |-> 1,
                      miss |-> 1, searches |-> o.searches] :
                         r \in Verify(us, username, challenge, sig)}
               : o \in UpdateOutcomes(v, us, gs, d, roles)}

\* every result of Authenticate: what it returns, the cache it leaves, and
\* how many scans, Updates and miss counters it took
AuthOutcomes(v, us, gs, d, roles, username, challenge, sig) ==
    LET first == Verify(us, username, challenge, sig)
    IN  IF first # {NilUser}
        THEN {[user |-> r, err |-> NoErr, users |-> us, groups |-> gs,
               scans |-> 1, updates |-> 0, miss |-> 0, searches |-> 0] :
                  r \in first}
        ELSE UNION {
               IF o.err # NoErr
               THEN {[user |-> NilUser, err |-> o.err, users |-> o.users,
                      groups |-> o.groups, scans |-> 1, updates |-> 1,
                      miss |-> 1, searches |-> o.searches]}
               ELSE {[user |-> r, err |-> NoErr, users |-> o.users,
                      groups |-> o.groups, scans |-> 2, updates |-> 1,
                      miss |-> 1, searches |-> o.searches] :
                         r \in Verify(o.users, username, challenge, sig)}
               : o \in UpdateOutcomes(v, us, gs, d, roles)}

(***************************************************************************)
(* The state machine.                                                      *)
(***************************************************************************)
NoCall == [op |-> "none", user |-> NilUser, err |-> NoErr, scans |-> 0,
           updates |-> 0, miss |-> 0, searches |-> 0,
           username |-> "", challenge |-> "", sig |-> [key |-> "", msg |-> ""]]

\* the goroutines that call Authenticate at the same time
Procs == {"p1", "p2"}

IdleLocal == [username |-> "", challenge |-> "", sig |-> [key |-> "", msg |-> ""],
              base |-> 0, todo |-> <<>>, fresh |-> EmptyMap, seen |-> {},
              user |-> NilUser, err |-> NoErr, updates |-> 0]

NotHeld == [taken |-> FALSE, obj |-> 0, seen |-> EmptyMap]

\* the struct literal of NewLDAPUserCache / NewKeysFileUserCache
Init ==
    /\ variant \in {"ldap", "keysfile"}
    /\ enableServerRoles \in BOOLEAN
    /\ phase = "new"
    /\ users = EmptyMap
    /\ groups = EmptyMap
    /\ dir \in Dirs(variant)
    /\ ret = NoCall
    /\ pc = [p \in Procs |-> "idle"]
    /\ local = [p \in Procs |-> IdleLocal]
    /\ resyncs = 0
    /\ mapObj = 0
    /\ held = NotHeld

PhaseAfter(err) == IF err = ErrPanic THEN "crashed" ELSE "ready"

\* the constructor returning a nil cache when its Update fails
NewNilOnError ==
    /\ phase = "new"
    /\ \E o \in UpdateOutcomes(variant, users, groups, dir, enableServerRoles) :
        /\ users' = o.users
        /\ groups' = o.groups
        /\ phase' = IF o.err = NoErr THEN "ready" ELSE "crashed"
        /\ ret' = [NoCall EXCEPT !.op = "New", !.err = o.err, !.updates = 1,
                                 !.searches = o.searches]
    /\ UNCHANGED <<variant, enableServerRoles, dir, concVars>>

\* the initial Update of the constructor
New ==
    /\ phase = "new"
    /\ \E o \in UpdateOutcomes(variant, users, groups, dir, enableServerRoles) :
        /\ users' = o.users
        /\ groups' = o.groups
        /\ phase' = PhaseAfter(o.err)
        /\ ret' = [NoCall EXCEPT !.op = "New", !.err = o.err, !.updates = 1,
                                 !.searches = o.searches]
    /\ UNCHANGED <<variant, enableServerRoles, dir, concVars>>

\* a direct call of Update
Update ==
    /\ phase = "ready"
    /\ \E o \in UpdateOutcomes(variant, users, groups, dir, enableServerRoles) :
        /\ users' = o.users
        /\ groups' = o.groups
        /\ phase' = PhaseAfter(o.err)
        /\ ret' = [NoCall EXCEPT !.op = "Update", !.err = o.err, !.updates = 1,
                                 !.searches = o.searches]
    /\ UNCHANGED <<variant, enableServerRoles, dir, concVars>>

Authenticate(username, challenge, sig) ==
    /\ phase = "ready"
    /\ \E o \in AuthOutcomes(variant, users, groups, dir, enableServerRoles,
                             username, challenge, sig) :
        /\ users' = o.users
        /\ groups' = o.groups
        /\ phase' = PhaseAfter(o.err)
        /\ ret' = [op |-> "Authenticate", user |-> o.user, err |-> o.err,
                   scans |-> o.scans, updates |-> o.updates, miss |-> o.miss,
                   searches |-> o.searches, username |-> username,
                   challenge |-> challenge, sig |-> sig]
    /\ UNCHANGED <<variant, enableServerRoles, dir, concVars>>

\* the directory is edited behind the cache's back: one entry or record is
\* added or removed, or the set of groups is replaced
DirChange ==
    /\ phase = "ready"
    /\ \E d \in Dirs(variant) :
        /\ \/ d.groups = dir.groups /\ Cardinality(d.recs \ dir.recs) = 1
                                   /\ dir.recs \subseteq d.recs
           \/ d.groups = dir.groups /\ Cardinality(dir.recs \ d.recs) = 1
                                   /\ d.recs \subseteq dir.recs
           \/ d.groups # dir.groups /\ d.recs = dir.recs
        /\ dir' = d
    /\ ret' = [NoCall EXCEPT !.op = "DirChange"]
    /\ UNCHANGED <<variant, enableServerRoles, phase, users, groups, concVars>>

Next ==
    \/ New
    \/ Update
    \/ \E n \in CallerNames, c \in Challenges, s \in Sigs : Authenticate(n, c, s)
    \/ DirChange

Spec == Init /\ [][Next]_vars

(***************************************************************************)
(* Concurrent callers.  The cache takes no lock: each goroutine runs       *)
(* Authenticate step by step, and the steps of different goroutines        *)
(* interleave.                                                             *)
(***************************************************************************)
\* a cache as some constructor call left it, shared by the goroutines
ConcInit ==
    /\ variant \in {"ldap", "keysfile"}
    /\ enableServerRoles \in BOOLEAN
    /\ phase = "ready"
    /\ dir \in Dirs(variant)
    /\ \E o \in UpdateOutcomes(variant, EmptyMap, EmptyMap, dir,
                               enableServerRoles) :
        /\ o.err # ErrPanic
        /\ users = o.users
        /\ groups = o.groups
    /\ ret = NoCall
    /\ pc = [p \in Procs |-> "idle"]
    /\ local = [p \in Procs |-> IdleLocal]
    /\ resyncs = 0
    /\ mapObj = 0
    /\ held = NotHeld

\* a goroutine enters Authenticate
CCall(p, username, challenge, sig) ==
    /\ phase = "ready" /\ pc[p] = "idle"
    /\ resyncs < MaxResyncs
    /\ pc' = [pc EXCEPT ![p] = "scan"]
    /\ local' = [local EXCEPT ![p] = [IdleLocal EXCEPT !.username = username,
                                                       !.challenge = challenge,
                                                       !.sig = sig]]
    /\ UNCHANGED <<variant, enableServerRoles, phase, users, groups, dir, ret,
                   resyncs, mapObj, held>>

\* the first _verify / verify
CScan(p) ==
    /\ phase = "ready" /\ pc[p] = "scan"
    /\ \E r \in Verify(users, local[p].username, local[p].challenge,
                       local[p].sig) :
        IF r # NilUser
        THEN /\ pc' = [pc EXCEPT ![p] = "done"]
             /\ local' = [local EXCEPT ![p].user = r]
        ELSE /\ pc' = [pc EXCEPT ![p] = "search"]
             /\ local' = [local EXCEPT ![p].base = resyncs]
    /\ UNCHANGED <<variant, enableServerRoles, phase, users, groups, dir, ret,
                   resyncs, mapObj, held>>

\* Update up to the loop over the entries or records: the directory is
\* read (and, in the LDAP cache, luc.groups written)
CSearch(p) ==
    /\ phase = "ready" /\ pc[p] = "search"
    /\ resyncs' = resyncs + 1
    /\ \E fail \in FailModes(variant), ord \in Perms(dir.recs) :
        LET o == UpdateWith(variant, users, groups, dir, <<>>, fail,
                            enableServerRoles)
        IN  /\ groups' = o.groups
            /\ IF o.err # NoErr
               THEN /\ pc' = [pc EXCEPT ![p] = "done"]
                    /\ local' = [local EXCEPT ![p].err = o.err,
                                              ![p].updates = 1]
               ELSE /\ pc' = [pc EXCEPT ![p] = "entries"]
                    /\ local' = [local EXCEPT ![p].todo = ord,
                                              ![p].updates = 1]
    /\ UNCHANGED <<variant, enableServerRoles, phase, users, dir, ret, mapObj,
                   held>>

\* one turn of Update's loop
CEntry(p) ==
    /\ phase = "ready" /\ pc[p] = "entries" /\ local[p].todo # <<>>
    /\ LET e == Head(local[p].todo)
           st == KeysScan([users |-> local[p].fresh, seen |-> local[p].seen,
                           panicked |-> FALSE], <<e>>, enableServerRoles)
       IN  IF variant = "ldap"
           THEN /\ users' = Put(users, e.username,
                                LdapUser(e, groups, enableServerRoles))
                /\ local' = [local EXCEPT ![p].todo = Tail(@)]
                /\ phase' = phase
           ELSE /\ users' = users
                /\ local' = [local EXCEPT ![p].todo = Tail(@),
                                          ![p].fresh = st.users,
                                          ![p].seen = st.seen]
                /\ phase' = IF st.panicked THEN "crashed" ELSE phase
    /\ UNCHANGED <<variant, enableServerRoles, groups, dir, ret, pc, resyncs,
                   mapObj, held>>

\* the end of Update: kfuc.users = users publishes the new map
CCommit(p) ==
    /\ phase = "ready" /\ pc[p] = "entries" /\ local[p].todo = <<>>
    /\ IF variant = "ldap"
       THEN UNCHANGED <<users, mapObj>>
       ELSE /\ users' = local[p].fresh
            /\ mapObj' = CHOOSE i \in 0..2 : i \notin {mapObj, held.obj}
    /\ pc' = [pc EXCEPT ![p] = "rescan"]
    /\ local' = [local EXCEPT ![p].fresh = EmptyMap, ![p].seen = {}]
    /\ UNCHANGED <<variant, enableServerRoles, phase, groups, dir, ret,
                   resyncs, held>>

\* the second _verify / verify
CRescan(p) ==
    /\ phase = "ready" /\ pc[p] = "rescan"
    /\ \E r \in Verify(users, local[p].username, local[p].challenge,
                       local[p].sig) :
        local' = [local EXCEPT ![p].user = r]
    /\ pc' = [pc EXCEPT ![p] = "done"]
    /\ UNCHANGED <<variant, enableServerRoles, phase, users, groups, dir, ret,
                   resyncs, mapObj, held>>

\* Authenticate returns
CReturn(p) ==
    /\ phase = "ready" /\ pc[p] = "done"
    /\ pc' = [pc EXCEPT ![p] = "idle"]
    /\ local' = [local EXCEPT ![p] = IdleLocal]
    /\ UNCHANGED <<variant, enableServerRoles, phase, users, groups, dir, ret,
                   resyncs, mapObj, held>>

\* Users(): the caller gets the map the users field points to
CUsers ==
    /\ phase = "ready" /\ ~held.taken
    /\ held' = [taken |-> TRUE, obj |-> mapObj, seen |-> users]
    /\ UNCHANGED <<variant, enableServerRoles, phase, users, groups, dir, ret,
                   pc, local, resyncs, mapObj>>

\* the LDAP cache writes its map in place while others read or write it:
\* the Go runtime may stop the process on such concurrent map access
CRaceFault ==
    /\ phase = "ready" /\ variant = "ldap"
    /\ \E p, q \in Procs :
        /\ p # q
        /\ pc[p] = "entries" /\ local[p].todo # <<>>
        /\ pc[q] \in {"scan", "rescan", "entries"}
    /\ phase' = "crashed"
    /\ UNCHANGED <<variant, enableServerRoles, users, groups, dir, ret,
                   concVars>>

ConcNext ==
    \/ \E p \in Procs, c \in Challenges, s \in Sigs :
            CCall(p, "alice", c, s)
    \/ \E p \in Procs : CScan(p)
    \/ \E p \in Procs : CSearch(p)
    \/ \E p \in Procs : CEntry(p)
    \/ \E p \in Procs : CCommit(p)
    \/ \E p \in Procs : CRescan(p)
    \/ \E p \in Procs : CReturn(p)
    \/ CUsers
    \/ CRaceFault

SpecConc == ConcInit /\ [][ConcNext]_vars


(***************************************************************************)
(* Properties.                                                             *)
(***************************************************************************)
\* the errors Update returns (a panic returns nothing)
ReturnedErrs == {ErrGroupSearch, ErrUserSearch, ErrLoad, ErrKeys}

\* the usernames holding a key under which sig verifies over challenge
Holders(us, challenge, sig) ==
    {u \in DOMAIN us : \E i \in 1..Len(us[u].SSHKeys) :
                          KeyVerify(us[u].SSHKeys[i], challenge, sig)}

\* the step is a call of Authenticate
AuthStep == ret'.op = "Authenticate"

\* the call ret describes ran an Update that returned nil
Refreshed(r) == r.op \in {"New", "Update", "Authenticate"}
                /\ r.updates = 1 /\ r.err = NoErr

\* C1: an Authenticate call whose signature verifies under no key of the
\* current snapshot runs Update exactly once; when that Update returns nil
\* and the new snapshot still holds no verifying key, the call returns
\* (nil, nil) after one re-scan; no call takes more than one Update or more
\* than two scans.
C1_MissRefreshesOnce ==
    [][AuthStep =>
        /\ ret'.updates <= 1 /\ ret'.scans <= 2
        /\ Holders(users, ret'.challenge, ret'.sig) = {} =>
            /\ ret'.updates = 1
            /\ ret'.miss = 1
            /\ (ret'.err = NoErr
                /\ Holders(users', ret'.challenge, ret'.sig) = {}) =>
                  (ret'.user = NilUser /\ ret'.scans = 2)]_vars

C1_Witness ==
    /\ ret.op = "Authenticate"
    /\ ret.updates = 1 /\ ret.scans = 2
    /\ ret.user = NilUser /\ ret.err = NoErr
    /\ users # EmptyMap

\* C2: when Authenticate misses and the Update it runs returns an error,
\* Authenticate returns the nil user and that very error, after one scan and
\* one Update; and it returns no error that Update did not return.
C2_UpdateErrorPropagates ==
    phase = "ready" =>
        \A n \in CallerNames, c \in Challenges, s \in Sigs :
            Holders(users, c, s) = {} =>
                LET A == AuthOutcomes(variant, users, groups, dir,
                                      enableServerRoles, n, c, s)
                    U == UpdateOutcomes(variant, users, groups, dir,
                                        enableServerRoles)
                IN  /\ \A u \in U : u.err \in ReturnedErrs =>
                          \E o \in A : /\ o.user = NilUser /\ o.err = u.err
                                       /\ o.users = u.users
                                       /\ o.groups = u.groups
                    /\ \A o \in A : o.err # NoErr =>
                          /\ o.user = NilUser
                          /\ o.scans = 1 /\ o.updates = 1
                          /\ \E u \in U : u.err = o.err /\ u.users = o.users

C2_Witness ==
    /\ ret.op = "Authenticate"
    /\ ret.err \in ReturnedErrs
    /\ ret.user = NilUser
    /\ ret.scans = 1 /\ ret.updates = 1

\* C3: a call in which Update returned an error (directly, in the
\* constructor or on the miss path of Authenticate) leaves the users map as
\* it was before the call.
C3_FailedUpdateKeepsSnapshot ==
    [][(ret'.op \in {"New", "Update", "Authenticate"}
        /\ ret'.err \in ReturnedErrs) => users' = users]_vars

C3_Witness ==
    /\ ret.op = "Update"
    /\ ret.err = ErrUserSearch
    /\ enableServerRoles
    /\ users # EmptyMap

\* C4 as stated: a signature made under a key of some cached user makes
\* Authenticate return that user, whoever else holds the key.
C4_ReturnsExactlyTheSigner ==
    [][AuthStep =>
        \A u \in Holders(users, ret'.challenge, ret'.sig) :
            ret'.user = users[u]]_vars

\* C4 amended: a signature made under a key of some cached user makes
\* Authenticate return, with a nil error and without an Update, a cached
\* user holding a key that verifies it: that user when no other holds one.
C4_ReturnsAHolder ==
    [][(AuthStep /\ Holders(users, ret'.challenge, ret'.sig) # {}) =>
        /\ ret'.err = NoErr
        /\ ret'.user \in {users[u] :
                            u \in Holders(users, ret'.challenge, ret'.sig)}
        /\ users' = users]_vars

C4_Witness ==
    /\ ret.op = "Authenticate"
    /\ ret.user # NilUser
    /\ ret.user.Username \in DOMAIN users
    /\ users[ret.user.Username] = ret.user
    /\ \E u \in Holders(users, ret.challenge, ret.sig) : users[u] # ret.user

\* C5: an Authenticate call whose signature verifies under a key of the
\* current snapshot returns a user and a nil error, runs no Update, counts
\* no miss, and leaves the users map and the group-role map as they were.
C5_HitLeavesCacheAlone ==
    [][(AuthStep /\ Holders(users, ret'.challenge, ret'.sig) # {}) =>
        /\ ret'.user # NilUser
        /\ ret'.err = NoErr
        /\ ret'.updates = 0 /\ ret'.miss = 0 /\ ret'.scans = 1
        /\ ret'.searches = 0
        /\ users' = users /\ groups' = groups]_vars

C5_Witness ==
    /\ ret.op = "Authenticate"
    /\ ret.user # NilUser
    /\ ret.updates = 0
    /\ variant = "ldap" /\ groups # EmptyMap

\* C6: after a successful Update no user is in the snapshot that the
\* directory did not return to that Update.
C6_NoStaleUsers ==
    Refreshed(ret) => DOMAIN users \subseteq {r.username : r \in dir.recs}

\* a snapshot as a set of (username, keys, arns, defaultRole) tuples, the
\* keys and the ARNs taken as sets
Tuples(us) ==
    {<<us[u].Username, Range(us[u].SSHKeys), Range(us[u].ARNs),
       us[u].DefaultRole>> : u \in DOMAIN us}

\* the map a holder of the Users() result reads now
HeldView == IF held.obj = mapObj THEN users ELSE held.seen

\* C7: of the concurrent Authenticate calls that missed on the same snapshot
\* (no resync began between their misses), at most one runs an Update that
\* reaches the directory.
C7_OneResyncPerSnapshot ==
    \A p, q \in Procs :
        (p # q /\ local[p].updates = 1 /\ local[q].updates = 1) =>
            local[p].base # local[q].base

\* C8: the map a caller got from Users() reads the same whatever Update
\* does afterwards, be it finished or under way.
C8_HeldMapStable == held.taken => HeldView = held.seen

\* C9: a successful Update that follows a successful Update, the directory
\* unchanged in between, leaves an equal set of user tuples.
C9_UpdateIdempotent ==
    [][(Refreshed(ret) /\ ret'.op = "Update" /\ ret'.err = NoErr) =>
        Tuples(users') = Tuples(users)]_vars

\* C10: from any state, Authenticate has the same possible results (user,
\* error, cache left behind) whatever username it is given.
C10_UsernameIgnored ==
    phase = "ready" =>
        \A c \in Challenges, s \in Sigs :
            Cardinality({AuthOutcomes(variant, users, groups, dir,
                                      enableServerRoles, n, c, s) :
                            n \in CallerNames}) = 1

C10_Witness ==
    /\ ret.op = "Authenticate"
    /\ ret.username = "mallory"
    /\ ret.user # NilUser
    /\ ret.user.Username = "alice"

\* C11: the constructor runs Update once on the empty cache and returns the
\* cache with that Update's error; when the Update returned an error the
\* cache is returned all the same, its snapshot is empty, and a following
\* Authenticate (a miss) leaves it with whatever a successful Update builds.
C11_ConstructorRunsOneUpdate ==
    [][ret'.op = "New" =>
        /\ ret'.updates = 1
        /\ \E o \in UpdateOutcomes(variant, EmptyMap, EmptyMap, dir,
                                   enableServerRoles) :
              o.err = ret'.err /\ o.users = users' /\ o.groups = groups'
        /\ ret'.err # ErrPanic => phase' = "ready"
        /\ ret'.err \in ReturnedErrs =>
            /\ users' = EmptyMap
            /\ \A u \in UpdateOutcomes(variant, users', groups', dir,
                                       enableServerRoles) :
                u.err = NoErr =>
                    \A n \in CallerNames, c \in Challenges, s \in Sigs :
                        \E a \in AuthOutcomes(variant, users', groups', dir,
                                              enableServerRoles, n, c, s) :
                            a.users = u.users /\ a.updates = 1]_vars

C11_Witness ==
    /\ ret.op = "New"
    /\ ret.err \in ReturnedErrs
    /\ phase = "ready"
    /\ users = EmptyMap
    /\ dir.recs # {}

\* s holds no value twice
NoDuplicates(s) == \A i, j \in 1..Len(s) : s[i] = s[j] => i = j

\* the role lists the directory attaches to the groups named in memberOf
DirGroupArns(d, memberOf) ==
    UNION {Range(g.arns) : g \in {x \in d.groups : x.dn \in Range(memberOf)}}

\* C12: in the LDAP cache with role support, after a successful Update the
\* ARNs of every user the directory returned are the union of the role lists
\* of the groups its entry names in memberOf, each ARN once; memberOf values
\* naming no known group add nothing.
C12_ArnsAreUnionOnce ==
    (variant = "ldap" /\ enableServerRoles /\ Refreshed(ret)) =>
        \A u \in DOMAIN users \cap {e.username : e \in dir.recs} :
            /\ NoDuplicates(users[u].ARNs)
            /\ \E e \in dir.recs :
                /\ e.username = u
                /\ Range(users[u].ARNs) = DirGroupArns(dir, e.memberOf)

\* the records of username u whose key parses
ParsedRecords(d, u) ==
    {r \in d.recs : r.username = u /\ r.key.form \in {"b64", "line"}}

\* C13: in the keys-file cache with role support, after a successful Update
\* every user's ARN list holds no role twice and holds exactly the roles
\* listed by the records of that username whose key parsed.
C13_KeysRolesOnce ==
    (variant = "keysfile" /\ enableServerRoles /\ Refreshed(ret)) =>
        \A u \in DOMAIN users :
            /\ NoDuplicates(users[u].ARNs)
            /\ Range(users[u].ARNs)
                 = UNION {Range(r.roles) : r \in ParsedRecords(dir, u)}

C13_Witness ==
    /\ variant = "keysfile" /\ enableServerRoles /\ Refreshed(ret)
    /\ \E u \in DOMAIN users :
        /\ Cardinality(ParsedRecords(dir, u)) = 2
        /\ \E a, b \in ParsedRecords(dir, u) :
              a # b /\ Range(a.roles) \cap Range(b.roles) # {}
        /\ Len(users[u].ARNs) = 3

\* the public keys held by the key strings of strs that are well formed
ValidKeys(strs) ==
    LET good == SelectSeq(strs, LAMBDA s : s.form \in {"b64", "line"})
    IN  [i \in 1..Len(good) |-> good[i].key]

\* the directory holds a key string that parses under neither form
HasBadKey(d) ==
    \E r \in d.recs :
        IF variant = "ldap" THEN \E i \in 1..Len(r.keys) : r.keys[i].form = "bad"
        ELSE r.key.form = "bad"

\* C14: a key string that parses under neither form does not make Update
\* return an error, and after a successful Update a user the directory
\* returned holds exactly its well-formed keys (two, when it was given two
\* well-formed keys and one malformed).
C14_BadKeySkipped ==
    /\ (phase = "ready" /\ HasBadKey(dir)
        /\ \A r \in dir.recs : r.username # Missing) =>
          \A ord \in Perms(dir.recs) :
              UpdateWith(variant, users, groups, dir, ord, "none",
                         enableServerRoles).err = NoErr
    /\ (Refreshed(ret) /\ variant = "ldap") =>
          \A u \in DOMAIN users \cap {e.username : e \in dir.recs} :
              \E e \in dir.recs :
                  e.username = u /\ users[u].SSHKeys = ValidKeys(e.keys)
    /\ (Refreshed(ret) /\ variant = "keysfile") =>
          \A u \in DOMAIN users :
              /\ Range(users[u].SSHKeys)
                   = {r.key.key : r \in ParsedRecords(dir, u)}
              /\ Len(users[u].SSHKeys) = Cardinality(ParsedRecords(dir, u))

C14_Witness ==
    /\ variant = "keysfile" /\ Refreshed(ret)
    /\ \E u \in DOMAIN users :
        /\ Cardinality({r \in dir.recs : r.username = u}) = 3
        /\ Cardinality(ParsedRecords(dir, u)) = 2
        /\ Len(users[u].SSHKeys) = 2

\* C15: after a successful keys-file Update every record that names a user
\* has that user in the cache, carrying the record's roles when server roles
\* are on, whether or not the record's key parsed.
C15_EveryRecordCounts ==
    (variant = "keysfile" /\ Refreshed(ret)) =>
        \A r \in dir.recs :
            r.username # Missing =>
                /\ r.username \in DOMAIN users
                /\ enableServerRoles =>
                     Range(r.roles) \subseteq Range(users[r.username].ARNs)

\* C16: in the keys-file engine a record without a username does not crash
\* Update: the call returns, and later calls can still be made.
C16_MissingUsernameSkipped ==
    variant = "keysfile" => (ret.err # ErrPanic /\ phase # "crashed")

\* C17: after a successful LDAP Update with server roles on, the ARNs of a
\* user the directory returned come only from groups the directory returned
\* to that same Update.
C17_GroupsRebuilt ==
    (variant = "ldap" /\ enableServerRoles /\ Refreshed(ret)) =>
        \A u \in DOMAIN users \cap {e.username : e \in dir.recs} :
            Range(users[u].ARNs) \subseteq UNION {Range(g.arns) : g \in dir.groups}

\* C18: every User in the snapshot has a non-empty Username and is stored
\* under the map key equal to its Username.
C18_UsernameSet ==
    \A u \in DOMAIN users : users[u].Username = u /\ u # ""

\* C19: when Authenticate returns a user, that user is an entry of the
\* snapshot at return and one of its keys verifies the signature over the
\* challenge; when it returns (nil, nil), it ran an Update that returned nil
\* and the snapshot that Update left holds no verifying key.
C19_AuthenticateSound ==
    ret.op = "Authenticate" =>
        /\ ret.user # NilUser =>
            /\ \E u \in DOMAIN users : users[u] = ret.user
            /\ \E i \in 1..Len(ret.user.SSHKeys) :
                  KeyVerify(ret.user.SSHKeys[i], ret.challenge, ret.sig)
        /\ (ret.user = NilUser /\ ret.err = NoErr) =>
            /\ ret.updates = 1
            /\ Holders(users, ret.challenge, ret.sig) = {}

C19_Witness ==
    /\ ret.op = "Authenticate" /\ ret.user # NilUser
    /\ ret.updates = 1 /\ ret.scans = 2

\* C20: with server roles off every cached user has an empty ARN list; the
\* LDAP cache keeps its group map empty, gives every user the configured
\* default role, and an Update issues one directory search.
C20_RolesOff ==
    ~enableServerRoles =>
        /\ \A u \in DOMAIN users : users[u].ARNs = <<>>
        /\ variant = "ldap" =>
            /\ groups = EmptyMap
            /\ \A u \in DOMAIN users : users[u].DefaultRole = ConfigDefaultRole
            /\ ret.updates = 1 => ret.searches = 1

C20_Witness ==
    /\ ~enableServerRoles /\ variant = "ldap" /\ Refreshed(ret)
    /\ dir.groups # {}
    /\ \E e \in dir.recs :
        /\ e.username \in DOMAIN users
        /\ e.memberOf # <<>> /\ e.defaultRole # ""

====
